---- MODULE Spec2Model ----
(***************************************************************************)
(* Model of subdomains_bruteforce/subdomain_bruteforce.py: the asyncio     *)
(* subdomain enumeration engine (SubdomainBruteForce and main).            *)
(*                                                                         *)
(* One asyncio event loop runs run_bruteforce (the main coroutine) and the *)
(* process_subdomain tasks that asyncio.gather creates for a batch.  A     *)
(* coroutine runs without interruption until it awaits network I/O or a    *)
(* sleep; `running` names the task that is between two such suspension     *)
(* points.  The DNS resolver, the HTTP server and the file system are the  *)
(* environment: the answers of resolver and server are fixed per name by   *)
(* DnsAnswer and HttpAnswer (an instrumented fake resolver and prober),    *)
(* and an append to an output file may fail at any time.                   *)
(***************************************************************************)
EXTENDS Integers, Sequences, FiniteSets, TLC

(* ---------------------------- bounds ---------------------------------- *)
\* longest wordlist, in lines
MaxLines == 2
\* largest --batch value tried (the smallest is MinBatch)
MaxBatch == 2
\* appends to an output file that may fail in one run
MaxSaveFailures == 1
\* smallest --batch value tried: argparse type=int accepts 0 and negatives
MinBatch == 0 - 1

(* ------------------------ program constants --------------------------- *)
\* for _ in range(2)
DnsTries == 2
\* if self.total_processed % 10 == 0
RefreshEvery == 10
NONE == 0

FileNames == {"dns_only", "dns_and_http"}

\* args.domain
domain == <<"d">>

(* --------------------------- the wordlist ----------------------------- *)
\* Lines as the file iterator yields them, newline included.
WordLines ==
    { <<"a", "\n">>, <<"b", "\n">>, <<"c", "\n">>,
      <<"x", "\n">>, <<" ", "\n">> }

IsSpace(ch) == ch \in {" ", "\n", "\t"}

RECURSIVE LStrip(_)
LStrip(s) == IF s # <<>> /\ IsSpace(Head(s)) THEN LStrip(Tail(s)) ELSE s

RECURSIVE RStrip(_)
RStrip(s) ==
    IF s # <<>> /\ IsSpace(s[Len(s)]) THEN RStrip(SubSeq(s, 1, Len(s) - 1)) ELSE s

\* str.strip()
Strip(s) == RStrip(LStrip(s))

\* subdomain = f"{line.strip()}.{self.domain}"
Subdomain(line) == Strip(line) \o <<".">> \o domain

Range(s) == { s[k] : k \in 1..Len(s) }

Count(s, x) == Cardinality({ k \in 1..Len(s) : s[k] = x })

RECURSIVE SeqsUpTo(_, _)
SeqsUpTo(S, n) ==
    IF n = 0 THEN { <<>> }
    ELSE LET shorter == SeqsUpTo(S, n - 1)
         IN  shorter \cup { Append(s, x) : s \in { t \in shorter : Len(t) = n - 1 }, x \in S }

(* ------------------------- the environment ---------------------------- *)
\* What the n-th gethostbyname for a name can yield: "ok" or the exception.
\*   a  resolves at once             b  fails once, then resolves
\*   c  fails twice, then resolves   x  resolves at once, or raises something
\*   the empty label never resolves     that is neither DNSError nor TimeoutError
DnsFailures == {"DNSError", "TimeoutError"}

DnsAnswer(sub, n) ==
    LET w == Head(sub)
    IN  CASE w = "."  -> {"DNSError"}
          [] w = "b"  -> IF n <= 1 THEN DnsFailures ELSE {"ok"}
          [] w = "c"  -> IF n <= 2 THEN DnsFailures ELSE {"ok"}
          [] w = "x"  -> {"ok", "OtherError"}
          [] OTHER    -> {"ok"}

\* What the n-th GET http://name can yield: a status or the exception.
\*   a, c  answer with a status of the list
\*   b     fails once (another status, a connection error or a timeout), then
\*         answers with a status of the list
\*   x     raises something that is neither ClientError nor TimeoutError
Statuses == {"200", "301", "302", "404"}

HttpFailures == {"ClientError", "TimeoutError"}

HttpAnswer(sub, n) ==
    LET w == Head(sub)
    IN  CASE w = "b"  -> IF n <= 1 THEN {"404"} \cup HttpFailures ELSE {"200", "301", "302"}
          [] w = "x"  -> {"OtherError"}
          [] OTHER    -> {"200", "301", "302"}

\* What a run of the program that ended earlier left in output/.
PriorFiles == [f \in FileNames |-> << <<"a", ".", "d">> >>]

VARIABLES
    wordlist,               \* the lines of the file at wordlist_path
    wordlistReadable,       \* open(self.wordlist_path, 'r') succeeds
    outputWritable,         \* open(self.output_*, 'w') succeeds
    max_concurrent_tasks,   \* self.max_concurrent_tasks
    files,                  \* the lines of the two output files
    fileExists,             \* whether each output file exists
    total_processed,        \* self.total_processed
    dns_queries,            \* self.dns_queries
    http_queries,           \* self.http_queries
    lock,                   \* holder of self.lock, NONE when free
    mainPc,                 \* position of run_bruteforce
    pos,                    \* lines of the wordlist already read by `for line in f`
    batch,                  \* the list batch, as line numbers
    pc,                     \* position of the process_subdomain task of each line
    attempt,                \* gethostbyname calls made for each task
    resolved,               \* resolve_subdomain returned the subdomain
    httpAttempts,           \* session.get calls made for each task
    live,                   \* check_http_live returned the subdomain
    saveFailed,             \* files whose append raised for each task
    runs,                   \* times process_subdomain was started for each line
    processed,              \* times total_processed was incremented for each line
    running,                \* the task executing between two suspension points
    exitCode                \* exit status of the process, -1 while it runs

vars == << wordlist, wordlistReadable, outputWritable, max_concurrent_tasks,
           files, fileExists, total_processed, dns_queries, http_queries, lock,
           mainPc, pos, batch, pc, attempt, resolved, httpAttempts, live,
           saveFailed, runs, processed, running, exitCode >>

inputs == << wordlist, wordlistReadable, outputWritable, max_concurrent_tasks >>
counters == << total_processed, dns_queries, http_queries >>
disk == << files, fileExists >>
mainVars == << mainPc, pos, batch >>
taskVars == << pc, attempt, resolved, httpAttempts, live, saveFailed, runs, processed >>

Tasks == 1..MaxLines

\* the subdomain built from each line the wordlist can hold
SubdomainOf == [line \in WordLines |-> Subdomain(line)]

\* the subdomain string handed to the task of line i
Sub(i) == SubdomainOf[wordlist[i]]

(* SubdomainBruteForce.__init__ and the state of the file system before    *)
(* run_bruteforce starts.                                                  *)
Init ==
    /\ wordlistReadable \in BOOLEAN
    /\ outputWritable \in BOOLEAN
    /\ wordlist \in SeqsUpTo(WordLines, MaxLines)
    /\ (~wordlistReadable \/ ~outputWritable) => wordlist = <<>>
    /\ max_concurrent_tasks \in MinBatch..MaxBatch
    /\ \E prior \in BOOLEAN :
          /\ fileExists = [f \in FileNames |-> prior]
          /\ files = IF prior THEN PriorFiles ELSE [f \in FileNames |-> <<>>]
    /\ total_processed = 0
    /\ dns_queries = 0
    /\ http_queries = 0
    /\ lock = NONE
    /\ mainPc = "init"
    /\ pos = 0
    /\ batch = <<>>
    /\ pc = [i \in Tasks |-> "idle"]
    /\ attempt = [i \in Tasks |-> 0]
    /\ resolved = [i \in Tasks |-> FALSE]
    /\ httpAttempts = [i \in Tasks |-> 0]
    /\ live = [i \in Tasks |-> FALSE]
    /\ saveFailed = [i \in Tasks |-> {}]
    /\ runs = [i \in Tasks |-> 0]
    /\ processed = [i \in Tasks |-> 0]
    /\ running = NONE
    /\ exitCode = 0 - 1


(* ------------------------- run_bruteforce ----------------------------- *)
Settled == {"idle", "done", "raised", "cancelled"}

\* tasks that gather created and that have not finished
InFlight == { i \in Tasks : pc[i] \notin Settled }

\* mutation of BatchFull: `==` in place of `>=`
BatchFullExact(b) == Len(b) = max_concurrent_tasks

\* mutation of BatchFull: the batch is gathered one element late
BatchFullLate(b) == Len(b) > max_concurrent_tasks

\* if len(batch) >= self.max_concurrent_tasks
BatchFull(b) == Len(b) >= max_concurrent_tasks

\* open(..., 'w').close() twice: both output files are created or emptied
ClearOutputs ==
    /\ mainPc = "init"
    /\ outputWritable
    /\ files' = [f \in FileNames |-> <<>>]
    /\ fileExists' = [f \in FileNames |-> TRUE]
    /\ mainPc' = "open"
    /\ UNCHANGED << inputs, counters, lock, pos, batch, taskVars, running, exitCode >>

\* the open raises outside the try block: run_bruteforce and asyncio.run raise
ClearOutputsFails ==
    /\ mainPc = "init"
    /\ ~outputWritable
    /\ mainPc' = "crashed"
    /\ UNCHANGED << inputs, disk, counters, lock, pos, batch, taskVars, running, exitCode >>

\* with open(self.wordlist_path, 'r') as f: count the lines, seek(0), batch = []
OpenWordlist ==
    /\ mainPc = "open"
    /\ wordlistReadable
    /\ pos' = 0
    /\ batch' = <<>>
    /\ mainPc' = "loop"
    /\ UNCHANGED << inputs, disk, counters, lock, taskVars, running, exitCode >>

\* except Exception: print("[ERROR] Failed to read wordlist"); return
OpenWordlistFails ==
    /\ mainPc = "open"
    /\ ~wordlistReadable
    /\ mainPc' = "aborted"
    /\ UNCHANGED << inputs, disk, counters, lock, pos, batch, taskVars, running, exitCode >>

\* for line in f: batch.append(subdomain); test the batch size
ReadLine ==
    /\ mainPc = "loop"
    /\ pos < Len(wordlist)
    /\ pos' = pos + 1
    /\ batch' = Append(batch, pos + 1)
    /\ mainPc' = IF BatchFull(batch') THEN "spawn_loop" ELSE "loop"
    /\ UNCHANGED << inputs, disk, counters, lock, taskVars, running, exitCode >>

\* the loop is exhausted: if batch: gather the rest, else the run is complete
EndOfFile ==
    /\ mainPc = "loop"
    /\ pos = Len(wordlist)
    /\ mainPc' = IF batch # <<>> THEN "spawn_last" ELSE "done"
    /\ UNCHANGED << inputs, disk, counters, lock, pos, batch, taskVars, running, exitCode >>

\* asyncio.gather(*(self.process_subdomain(sub, ...) for sub in batch)):
\* one task per element of batch, then run_bruteforce is suspended
Gather ==
    /\ mainPc \in {"spawn_loop", "spawn_last"}
    /\ pc' = [i \in Tasks |-> IF i \in Range(batch) THEN "new" ELSE pc[i]]
    /\ runs' = [i \in Tasks |-> runs[i] + Count(batch, i)]
    /\ mainPc' = IF mainPc = "spawn_loop" THEN "gather_loop" ELSE "gather_last"
    /\ UNCHANGED << inputs, disk, counters, lock, pos, batch, attempt, resolved,
                    httpAttempts, live, saveFailed, processed, running, exitCode >>

\* mutation of AfterGather: batch.clear() is missing
AfterGatherKeeps(b) == b

\* what run_bruteforce does with the batch after the gather in the loop

AfterGather(b) == <<>>

\* every task of the batch returned: batch.clear() and on with the loop,
\* or past the last gather to the "Scan complete" message
GatherReturns ==
    /\ mainPc \in {"gather_loop", "gather_last"}
    /\ running = NONE
    /\ \A i \in Range(batch) : pc[i] = "done"
    /\ IF mainPc = "gather_loop"
          THEN mainPc' = "loop" /\ batch' = AfterGather(batch)
          ELSE mainPc' = "done" /\ batch' = batch
    /\ UNCHANGED << inputs, disk, counters, lock, pos, taskVars, running, exitCode >>

\* a task raised: gather raises it in run_bruteforce, whose except Exception
\* prints "[ERROR] Failed to read wordlist" and returns
GatherRaises ==
    /\ mainPc \in {"gather_loop", "gather_last"}
    /\ running = NONE
    /\ \E i \in Range(batch) : pc[i] = "raised"
    /\ mainPc' = "aborted"
    /\ UNCHANGED << inputs, disk, counters, lock, pos, batch, taskVars, running, exitCode >>

Returned == {"done", "aborted", "crashed"}

\* asyncio.run cancels the tasks that are still pending once run_bruteforce
\* has returned: CancelledError is thrown into the task at its await
CancelTask(i) ==
    /\ mainPc = "aborted"
    /\ running = NONE
    /\ pc[i] \in {"new", "dns_wait", "dns_sleep", "http_wait"}
    /\ pc' = [pc EXCEPT ![i] = "cancelled"]
    /\ UNCHANGED << inputs, disk, counters, lock, mainVars, attempt, resolved,
                    httpAttempts, live, saveFailed, runs, processed, running, exitCode >>

\* main returns after asyncio.run: status 0, or 1 with a traceback when
\* run_bruteforce raised
Exit ==
    /\ mainPc \in Returned
    /\ exitCode = 0 - 1
    /\ InFlight = {}
    /\ exitCode' = IF mainPc = "crashed" THEN 1 ELSE 0
    /\ UNCHANGED << inputs, disk, counters, lock, mainVars, taskVars, running >>


(* ------------------------ process_subdomain --------------------------- *)
\* The event loop starts the tasks of a gather in the order of the batch,
\* each up to its first await, before it delivers any I/O result.
NoneNew == \A j \in Tasks : pc[j] # "new"

\* the event loop is free to resume a suspended task
LoopIdle == running = NONE /\ NoneNew

\* process_subdomain -> resolve_subdomain: first pass of `for _ in range(2)`,
\* suspended in await self.resolver.gethostbyname(...)
StartTask(i) ==
    /\ running = NONE
    /\ pc[i] = "new"
    /\ \A k \in 1..Len(batch) : batch[k] = i => \A m \in 1..(k - 1) : pc[batch[m]] # "new"
    /\ pc' = [pc EXCEPT ![i] = "dns_wait"]
    /\ attempt' = [attempt EXCEPT ![i] = 1]
    /\ resolved' = [resolved EXCEPT ![i] = FALSE]
    /\ httpAttempts' = [httpAttempts EXCEPT ![i] = 0]
    /\ live' = [live EXCEPT ![i] = FALSE]
    /\ UNCHANGED << inputs, disk, counters, lock, mainVars, saveFailed, runs,
                    processed, running, exitCode >>

\* gethostbyname returned: on to `async with self.lock`
DnsResolved(i) ==
    /\ LoopIdle
    /\ pc[i] = "dns_wait"
    /\ "ok" \in DnsAnswer(Sub(i), attempt[i])
    /\ pc' = [pc EXCEPT ![i] = "dns_lock"]
    /\ running' = i
    /\ UNCHANGED << inputs, disk, counters, lock, mainVars, attempt, resolved,
                    httpAttempts, live, saveFailed, runs, processed, exitCode >>

\* except (aiodns.error.DNSError, asyncio.TimeoutError): await asyncio.sleep(0.5)
DnsFailed(i) ==
    /\ LoopIdle
    /\ pc[i] = "dns_wait"
    /\ DnsAnswer(Sub(i), attempt[i]) \cap DnsFailures # {}
    /\ pc' = [pc EXCEPT ![i] = "dns_sleep"]
    /\ UNCHANGED << inputs, disk, counters, lock, mainVars, attempt, resolved,
                    httpAttempts, live, saveFailed, runs, processed, running, exitCode >>

\* any other exception leaves resolve_subdomain and process_subdomain
DnsRaised(i) ==
    /\ LoopIdle
    /\ pc[i] = "dns_wait"
    /\ "OtherError" \in DnsAnswer(Sub(i), attempt[i])
    /\ pc' = [pc EXCEPT ![i] = "raised"]
    /\ UNCHANGED << inputs, disk, counters, lock, mainVars, attempt, resolved,
                    httpAttempts, live, saveFailed, runs, processed, running, exitCode >>

\* mutation of DnsRetry: a loop of three passes
DnsRetryThrice(n) == n < DnsTries + 1

\* `for _ in range(2)` has another pass after n attempts
DnsRetry(n) == n < DnsTries

\* mutation of Unresolved: `if resolved_subdomain:` is missing
UnresolvedSavedToo == "save_dns"

\* where process_subdomain goes on when resolve_subdomain returned None:
\* `if resolved_subdomain:` is false, so at `if self.total_processed % 10 == 0`

Unresolved == "refresh"

\* the sleep is over: the next pass of the loop, or `return None`
DnsSleepOver(i) ==
    /\ LoopIdle
    /\ pc[i] = "dns_sleep"
    /\ IF DnsRetry(attempt[i])
          THEN /\ attempt' = [attempt EXCEPT ![i] = @ + 1]
               /\ pc' = [pc EXCEPT ![i] = "dns_wait"]
               /\ running' = running
          ELSE /\ attempt' = attempt
               /\ pc' = [pc EXCEPT ![i] = Unresolved]
               /\ running' = i
    /\ UNCHANGED << inputs, disk, counters, lock, mainVars, resolved,
                    httpAttempts, live, saveFailed, runs, processed, exitCode >>

\* the position a task takes after `async with self.lock` at each site
Locked(p) ==
    CASE p = "dns_lock"   -> "dns_count"
      [] p = "save_dns"   -> "write_dns"
      [] p = "http_lock"  -> "http_count"
      [] p = "save_http"  -> "write_http"
      [] p = "count_lock" -> "count"

LockSites == {"dns_lock", "save_dns", "http_lock", "save_http", "count_lock"}

\* async with self.lock: asyncio.Lock.acquire of a free lock does not suspend
Acquire(i) ==
    /\ running = i
    /\ pc[i] \in LockSites
    /\ lock = NONE
    /\ lock' = i
    /\ pc' = [pc EXCEPT ![i] = Locked(pc[i])]
    /\ UNCHANGED << inputs, disk, counters, mainVars, attempt, resolved,
                    httpAttempts, live, saveFailed, runs, processed, running, exitCode >>

\* self.dns_queries += 1; the lock is released; return subdomain;
\* process_subdomain calls save_to_file(self.output_dns_only, ...)
DnsCount(i) ==
    /\ running = i
    /\ pc[i] = "dns_count"
    /\ dns_queries' = dns_queries + 1
    /\ lock' = NONE
    /\ resolved' = [resolved EXCEPT ![i] = TRUE]
    /\ pc' = [pc EXCEPT ![i] = "save_dns"]
    /\ UNCHANGED << inputs, disk, total_processed, http_queries, mainVars, attempt,
                    httpAttempts, live, saveFailed, runs, processed, running, exitCode >>

\* the file a task is appending to
Target(p) == IF p = "write_dns" THEN "dns_only" ELSE "dns_and_http"

\* where process_subdomain goes on after save_to_file
AfterSave(p) == IF p = "write_dns" THEN "http_get" ELSE "refresh"

\* mutation of Written: the file is opened with 'w'
WrittenOverwrites(content, data) == << data >>

\* f.write(f"{data}\n") on a file opened with 'a'

Written(content, data) == Append(content, data)

\* open(filename, 'a'); write; flush; fsync; the lock is released
AppendLine(i) ==
    /\ running = i
    /\ pc[i] \in {"write_dns", "write_http"}
    /\ files' = [files EXCEPT ![Target(pc[i])] = Written(@, Sub(i))]
    /\ fileExists' = [fileExists EXCEPT ![Target(pc[i])] = TRUE]
    /\ lock' = NONE
    /\ pc' = [pc EXCEPT ![i] = AfterSave(pc[i])]
    /\ UNCHANGED << inputs, counters, mainVars, attempt, resolved, httpAttempts,
                    live, saveFailed, runs, processed, running, exitCode >>

RECURSIVE SumUpTo(_, _)
SumUpTo(f, n) == IF n = 0 THEN 0 ELSE f[n] + SumUpTo(f, n - 1)

\* appends that have failed so far in this run
SaveFailures == SumUpTo([i \in Tasks |-> Cardinality(saveFailed[i])], MaxLines)

\* the open or the write raises: the lock is released,
\* except Exception: print("[ERROR] Unable to save ...")
AppendFails(i) ==
    /\ running = i
    /\ pc[i] \in {"write_dns", "write_http"}
    /\ SaveFailures < MaxSaveFailures
    /\ saveFailed' = [saveFailed EXCEPT ![i] = @ \cup {Target(pc[i])}]
    /\ lock' = NONE
    /\ pc' = [pc EXCEPT ![i] = AfterSave(pc[i])]
    /\ UNCHANGED << inputs, disk, counters, mainVars, attempt, resolved, httpAttempts,
                    live, runs, processed, running, exitCode >>

\* check_http_live: a session, then suspended in session.get(..., timeout=4)
HttpGet(i) ==
    /\ running = i
    /\ pc[i] = "http_get"
    /\ httpAttempts' = [httpAttempts EXCEPT ![i] = @ + 1]
    /\ pc' = [pc EXCEPT ![i] = "http_wait"]
    /\ running' = NONE
    /\ UNCHANGED << inputs, disk, counters, lock, mainVars, attempt, resolved,
                    live, saveFailed, runs, processed, exitCode >>

\* mutation of LiveStatus: any response counts as live
LiveStatusAny(st) == st \in Statuses

\* if response.status in [200, 301, 302]

LiveStatus(st) == st \in {"200", "301", "302"}

\* mutation of AfterHttpFailure: a failed GET is repeated once
HttpRetryOnce(n) == IF n < 2 THEN "http_get" ELSE "refresh"

\* where a task goes on after its n-th GET failed: check_http_live has no loop,
\* it returns None and process_subdomain goes on at the counter refresh
AfterHttpFailure(n) == "refresh"

\* a response with a status of the list: on to `async with self.lock`
HttpLive(i) ==
    /\ LoopIdle
    /\ pc[i] = "http_wait"
    /\ \E st \in HttpAnswer(Sub(i), httpAttempts[i]) \cap Statuses : LiveStatus(st)
    /\ pc' = [pc EXCEPT ![i] = "http_lock"]
    /\ running' = i
    /\ UNCHANGED << inputs, disk, counters, lock, mainVars, attempt, resolved,
                    httpAttempts, live, saveFailed, runs, processed, exitCode >>

\* a response with another status: the function ends without a return
HttpOtherStatus(i) ==
    /\ LoopIdle
    /\ pc[i] = "http_wait"
    /\ \E st \in HttpAnswer(Sub(i), httpAttempts[i]) \cap Statuses : ~LiveStatus(st)
    /\ pc' = [pc EXCEPT ![i] = AfterHttpFailure(httpAttempts[i])]
    /\ running' = i
    /\ UNCHANGED << inputs, disk, counters, lock, mainVars, attempt, resolved,
                    httpAttempts, live, saveFailed, runs, processed, exitCode >>

\* except (aiohttp.ClientError, asyncio.TimeoutError): return None
HttpFailed(i) ==
    /\ LoopIdle
    /\ pc[i] = "http_wait"
    /\ HttpAnswer(Sub(i), httpAttempts[i]) \cap HttpFailures # {}
    /\ pc' = [pc EXCEPT ![i] = AfterHttpFailure(httpAttempts[i])]
    /\ running' = i
    /\ UNCHANGED << inputs, disk, counters, lock, mainVars, attempt, resolved,
                    httpAttempts, live, saveFailed, runs, processed, exitCode >>

\* any other exception leaves check_http_live and process_subdomain
HttpRaised(i) ==
    /\ LoopIdle
    /\ pc[i] = "http_wait"
    /\ "OtherError" \in HttpAnswer(Sub(i), httpAttempts[i])
    /\ pc' = [pc EXCEPT ![i] = "raised"]
    /\ UNCHANGED << inputs, disk, counters, lock, mainVars, attempt, resolved,
                    httpAttempts, live, saveFailed, runs, processed, running, exitCode >>

\* self.http_queries += 1; the lock is released; return subdomain;
\* process_subdomain calls save_to_file(self.output_dns_and_http, ...)
HttpCount(i) ==
    /\ running = i
    /\ pc[i] = "http_count"
    /\ http_queries' = http_queries + 1
    /\ lock' = NONE
    /\ live' = [live EXCEPT ![i] = TRUE]
    /\ pc' = [pc EXCEPT ![i] = "save_http"]
    /\ UNCHANGED << inputs, disk, total_processed, dns_queries, mainVars, attempt,
                    resolved, httpAttempts, saveFailed, runs, processed, running, exitCode >>

\* mutation of count_lines: wc always fails
count_linesFails(f) == 0

\* count_lines: wc -l of the file, 0 when wc fails

count_lines(f) == IF fileExists[f] THEN Len(files[f]) ELSE 0

\* if self.total_processed % 10 == 0: both hit counters are read from the files
Refresh(i) ==
    /\ running = i
    /\ pc[i] = "refresh"
    /\ IF total_processed % RefreshEvery = 0
          THEN /\ dns_queries' = count_lines("dns_only")
               /\ http_queries' = count_lines("dns_and_http")
          ELSE UNCHANGED << dns_queries, http_queries >>
    /\ pc' = [pc EXCEPT ![i] = "count_lock"]
    /\ UNCHANGED << inputs, disk, total_processed, lock, mainVars, attempt, resolved,
                    httpAttempts, live, saveFailed, runs, processed, running, exitCode >>

\* self.total_processed += 1 and the progress bar; the lock is released and
\* process_subdomain returns
CountProcessed(i) ==
    /\ running = i
    /\ pc[i] = "count"
    /\ total_processed' = total_processed + 1
    /\ processed' = [processed EXCEPT ![i] = @ + 1]
    /\ lock' = NONE
    /\ pc' = [pc EXCEPT ![i] = "done"]
    /\ running' = NONE
    /\ UNCHANGED << inputs, disk, dns_queries, http_queries, mainVars, attempt,
                    resolved, httpAttempts, live, saveFailed, runs, exitCode >>

Next ==
    \/ ClearOutputs
    \/ ClearOutputsFails
    \/ OpenWordlist
    \/ OpenWordlistFails
    \/ ReadLine
    \/ EndOfFile
    \/ Gather
    \/ GatherReturns
    \/ GatherRaises
    \/ Exit
    \/ \E i \in Tasks :
          \/ CancelTask(i)
          \/ StartTask(i)
          \/ DnsResolved(i)
          \/ DnsFailed(i)
          \/ DnsRaised(i)
          \/ DnsSleepOver(i)
          \/ Acquire(i)
          \/ DnsCount(i)
          \/ AppendLine(i)
          \/ AppendFails(i)
          \/ HttpGet(i)
          \/ HttpLive(i)
          \/ HttpOtherStatus(i)
          \/ HttpFailed(i)
          \/ HttpRaised(i)
          \/ HttpCount(i)
          \/ Refresh(i)
          \/ CountProcessed(i)

Spec == Init /\ [][Next]_vars


(* ======================= properties of the engine ===================== *)
Lines == 1..Len(wordlist)

Exited == exitCode >= 0

\* resolve_subdomain has returned to process_subdomain for task i
AfterResolve(i) ==
    \/ pc[i] \in {"save_dns", "write_dns", "http_get", "http_wait", "http_lock",
                  "http_count", "save_http", "write_http", "refresh", "count_lock",
                  "count", "done"}
    \/ pc[i] \in {"raised", "cancelled"} /\ httpAttempts[i] > 0

\* save_to_file for the DNS-only file has returned for task i
AfterDnsSave(i) ==
    /\ resolved[i]
    /\ \/ pc[i] \in {"http_get", "http_wait", "http_lock", "http_count", "save_http",
                     "write_http", "refresh", "count_lock", "count", "done"}
       \/ pc[i] \in {"raised", "cancelled"} /\ httpAttempts[i] > 0

\* check_http_live has returned to process_subdomain for task i
AfterHttp(i) ==
    /\ resolved[i]
    /\ pc[i] \in {"save_http", "write_http", "refresh", "count_lock", "count", "done"}

\* C1: with max_concurrent_tasks = K >= 1, never more than K tasks of
\* process_subdomain have been created by gather and have not finished.
ConcurrencyCeiling ==
    max_concurrent_tasks >= 1 => Cardinality(InFlight) <= max_concurrent_tasks

\* C1 witness: a batch of two, both tasks suspended in their HTTP request.
CeilingReached ==
    /\ max_concurrent_tasks = 2
    /\ Cardinality({ i \in Tasks : pc[i] = "http_wait" }) = 2

\* C2: when the process has exited, every line of the wordlist has been run
\* through process_subdomain exactly once.
EveryCandidateOnce ==
    Exited => \A i \in Lines : runs[i] = 1

\* C3: every line of the DNS+HTTP file is a line of the DNS-only file.
TierInclusion ==
    Range(files["dns_and_http"]) \subseteq Range(files["dns_only"])

\* C4: no output file holds the same line twice.
NoDuplicateLines ==
    \A f \in FileNames : \A k, m \in 1..Len(files[f]) :
        k # m => files[f][k] # files[f][m]

\* C5: at the end of a completed run a candidate is in the DNS-only file
\* if and only if one of its resolution attempts succeeded.
DnsOnlyIffResolved ==
    (Exited /\ mainPc = "done") =>
        \A i \in Lines : (Sub(i) \in Range(files["dns_only"])) <=> resolved[i]

\* C6 as stated: a budget of three attempts.  A name that resolves on one of
\* its first three attempts is resolved, and "not resolved" is returned only
\* after three attempts.
DnsBudgetThree ==
    \A i \in Lines : AfterResolve(i) =>
        /\ (\E n \in 1..3 : DnsAnswer(Sub(i), n) = {"ok"}) => resolved[i]
        /\ ~resolved[i] => attempt[i] = 3

\* C6 as amended: a budget of two attempts.  A task is resolved exactly when
\* one of the first two answers is a success, the attempts before the
\* successful one all failed and none follows it, "not resolved" is returned
\* after exactly two attempts, and every resolved task is handed to
\* save_to_file for the DNS-only file: its line is there unless that append
\* raised.
DnsBudgetTwo ==
    \A i \in Lines : AfterResolve(i) =>
        /\ resolved[i] <=> \E n \in 1..2 : "ok" \in DnsAnswer(Sub(i), n)
        /\ resolved[i] =>
              /\ "ok" \in DnsAnswer(Sub(i), attempt[i])
              /\ \A n \in 1..(attempt[i] - 1) : DnsAnswer(Sub(i), n) \subseteq DnsFailures
        /\ ~resolved[i] => attempt[i] = 2
        /\ AfterDnsSave(i) =>
              \/ Sub(i) \in Range(files["dns_only"])
              \/ "dns_only" \in saveFailed[i]

\* C6 witness: one task resolved on its second attempt and is in the
\* DNS-only file, another finished unresolved after two attempts.
DnsRetryHappened ==
    \E i, j \in Lines :
        /\ pc[i] = "done" /\ resolved[i] /\ attempt[i] = 2
        /\ Sub(i) \in Range(files["dns_only"])
        /\ pc[j] = "done" /\ ~resolved[j] /\ attempt[j] = 2

\* C7 as stated: a budget of two HTTP attempts.  A resolved candidate one of
\* whose first two requests is answered with 200, 301 or 302 is live, and
\* "not live" is returned only after two attempts.
HttpBudgetTwo ==
    \A i \in Lines : AfterHttp(i) =>
        /\ (\E n \in 1..2 : HttpAnswer(Sub(i), n) \subseteq {"200", "301", "302"}) => live[i]
        /\ ~live[i] => httpAttempts[i] = 2

\* C7 as amended: a single HTTP attempt, never retried.  check_http_live has
\* made exactly one request when it returns, the candidate is live exactly
\* when that request was answered with 200, 301 or 302, and every live
\* candidate is handed to save_to_file for the DNS+HTTP file: once the task
\* is done its line is there unless that append raised.
HttpSingleAttempt ==
    \A i \in Lines : AfterHttp(i) =>
        /\ httpAttempts[i] = 1
        /\ live[i] <=> HttpAnswer(Sub(i), 1) \cap {"200", "301", "302"} # {}
        /\ (live[i] /\ pc[i] = "done") =>
              \/ Sub(i) \in Range(files["dns_and_http"])
              \/ "dns_and_http" \in saveFailed[i]

\* C7 witness: a finished task whose only request failed although a second
\* one would have been answered with a status of the list, and a finished
\* task recorded as an HTTP hit.
HttpFailureNotRetried ==
    \E i, j \in Lines :
        /\ pc[i] = "done" /\ resolved[i] /\ ~live[i] /\ httpAttempts[i] = 1
        /\ HttpAnswer(Sub(i), 2) \subseteq {"200", "301", "302"}
        /\ pc[j] = "done" /\ live[j]
        /\ Sub(j) \in Range(files["dns_and_http"])

\* C8: at the end of a completed run total_processed is the number of
\* lines of the wordlist that are not blank.
ProcessedCountsNonBlank ==
    (Exited /\ mainPc = "done") =>
        total_processed = Cardinality({ i \in Lines : Strip(wordlist[i]) # <<>> })

\* C9: when the wordlist cannot be opened no step of the run creates,
\* truncates or otherwise changes an output file.
UnreadableWordlistKeepsOutputs ==
    [][~wordlistReadable => UNCHANGED disk]_vars

\* C10: a run that completed exits with status 0, a run that was aborted
\* exits with another status.
ExitStatusTellsOutcome ==
    Exited =>
        /\ mainPc = "done" => exitCode = 0
        /\ mainPc = "aborted" => exitCode # 0

\* C11: a failed append is swallowed and never aborts the run: when the
\* process has exited after save_to_file failed for some candidate, that
\* candidate has been counted in total_processed, its HTTP check ran after a
\* failed DNS-only append, and every line of the wordlist has been processed.
FailedAppendKeepsRunGoing ==
    Exited =>
        \A i \in Lines :
            saveFailed[i] # {} =>
                /\ processed[i] = 1
                /\ "dns_only" \in saveFailed[i] => httpAttempts[i] = 1
                /\ \A j \in Lines : processed[j] = 1

\* C12: an error raised by the DNS resolution or the HTTP probe of one
\* candidate never keeps another candidate from being processed: when the
\* process has exited, every line whose own probes raised nothing has been
\* run once and counted once in total_processed.
ErrorIsolation ==
    Exited =>
        \A j \in Lines : pc[j] # "raised" => (runs[j] = 1 /\ processed[j] = 1)

\* C13: every step that changes total_processed, dns_queries or
\* http_queries, and every step that changes an output file after the
\* truncation at the start of the run, is taken by the task that holds
\* self.lock; the lock has at most one holder.
SerializedSharedState ==
    [][ ( \/ counters' # counters
          \/ (mainPc # "init" /\ files' # files) )
        => (lock # NONE /\ lock = running) ]_vars

\* C14: the HTTP request of a candidate is issued only after its DNS
\* resolution has returned a name: whenever a task is at or past
\* check_http_live, or has issued a request, gethostbyname has answered for it
\* and the task has counted the answer; a task whose resolution failed twice,
\* or has not finished, has issued no request.
HttpOnlyAfterDns ==
    \A i \in Tasks :
        /\ ( \/ httpAttempts[i] > 0
             \/ pc[i] \in {"http_get", "http_wait", "http_lock", "http_count",
                           "save_http", "write_http"} )
           => ( /\ resolved[i]
                /\ "ok" \in DnsAnswer(Sub(i), attempt[i]) )
        /\ pc[i] \in {"new", "dns_wait", "dns_sleep", "dns_lock", "dns_count"}
           => httpAttempts[i] = 0

\* C14 witness: a task suspended in its HTTP request after its second
\* DNS attempt resolved the name, beside a finished task whose two attempts
\* failed and that issued no request.
HttpAfterRetriedDns ==
    \E i, j \in Tasks :
        /\ pc[i] = "http_wait" /\ attempt[i] = 2 /\ resolved[i]
        /\ pc[j] = "done" /\ ~resolved[j] /\ attempt[j] = 2 /\ httpAttempts[j] = 0

\* the number of the batch a line is gathered in: batches hold
\* max_concurrent_tasks consecutive lines, one line when that is below 1
BatchOf(i) ==
    LET size == IF max_concurrent_tasks >= 1 THEN max_concurrent_tasks ELSE 1
    IN  (i - 1) \div size

\* C15: lines are admitted in batches of max_concurrent_tasks consecutive
\* lines in wordlist order, and no task of a later batch has been created
\* before every task of each earlier batch has returned after its increment of
\* total_processed.
BatchDraining ==
    /\ \A i, j \in Lines :
           (BatchOf(j) < BatchOf(i) /\ pc[i] # "idle")
               => (pc[j] = "done" /\ processed[j] = 1)
    /\ \A i, j \in Lines : (i < j /\ pc[j] # "idle") => pc[i] # "idle"
    /\ \A k \in 1..Len(batch) :
           /\ batch[k] = pos - Len(batch) + k
           /\ BatchOf(batch[k]) = BatchOf(pos)

\* C15 witness: batches of one; the task of the second line is suspended
\* in its HTTP request after the task of the first line has returned.
SecondBatchAfterFirst ==
    /\ max_concurrent_tasks = 1
    /\ Len(wordlist) = 2
    /\ pc[1] = "done" /\ processed[1] = 1
    /\ pc[2] = "http_wait"

\* the phase of run_bruteforce: Init until the wordlist is open, Streaming
\* while lines are read and batches are gathered, Draining in the gather of
\* the last partial batch after the loop, Done at "Scan complete", Aborted
\* once an exception has ended the run
Phase ==
    CASE mainPc \in {"init", "open"}                                   -> "Init"
      [] mainPc \in {"loop", "spawn_loop", "gather_loop", "spawn_last"} -> "Streaming"
      [] mainPc = "gather_last"                                         -> "Draining"
      [] mainPc = "done"                                                -> "Done"
      [] OTHER                                                          -> "Aborted"

\* the moves of the claim; a run with no partial batch left at the end of
\* the file has nothing to drain and passes from Streaming to Done
PhaseMoves ==
    { <<"Init", "Streaming">>, <<"Streaming", "Draining">>, <<"Draining", "Done">>,
      <<"Streaming", "Done">>, <<"Init", "Aborted">>, <<"Streaming", "Aborted">> }

\* C16: the run moves only along Init -> Streaming -> Draining -> Done, or
\* from Init or Streaming to Aborted; Done and Aborted are never left; Done is
\* entered only when no task is in flight and the task of every line has
\* returned; no task is created once the run has left Streaming.
OrchestratorStateMachine ==
    [][ /\ Phase' # Phase => << Phase, Phase' >> \in PhaseMoves
        /\ (Phase # "Done" /\ Phase' = "Done")
               => (InFlight = {} /\ \A i \in Lines : pc[i] = "done")
        /\ Phase \notin {"Init", "Streaming"} => runs' = runs ]_vars

LiveAnswers == {"200", "301", "302"}

\* task i is past save_to_file for the DNS+HTTP file
AfterHttpSave(i) == live[i] /\ pc[i] \in {"refresh", "count_lock", "count", "done"}

\* C18 as stated: a resolved candidate whose task has returned has its line
\* in the DNS+HTTP file if and only if its HTTP request was answered with
\* status 200, 301 or 302.
WrittenIffLiveStatus ==
    \A i \in Lines :
        (pc[i] = "done" /\ resolved[i]) =>
            ( Sub(i) \in Range(files["dns_and_http"])
                <=> HttpAnswer(Sub(i), 1) \subseteq LiveAnswers )

\* a step in which check_http_live returns None for some task
ReturnsNotLive ==
    \E i \in Tasks : pc[i] = "http_wait" /\ pc'[i] = "refresh"

\* C18 amended: check_http_live returns the name if and only if the one
\* request was answered with status 200, 301 or 302; the DNS+HTTP file holds
\* one line for each task that was live and whose append did not raise, and
\* no other line; a step that returns 'not live' changes neither the files
\* nor http_queries.
LivenessClassification ==
    /\ [] ( /\ \A i \in Lines :
                  AfterHttp(i) =>
                      (live[i] <=> HttpAnswer(Sub(i), 1) \subseteq LiveAnswers)
            /\ mainPc \notin {"init", "crashed"} =>
                  \A i \in Lines :
                      Count(files["dns_and_http"], Sub(i))
                          = Cardinality({ j \in Lines :
                                              /\ Sub(j) = Sub(i)
                                              /\ AfterHttpSave(j)
                                              /\ "dns_and_http" \notin saveFailed[j] })
            /\ mainPc \notin {"init", "crashed"} =>
                  \A k \in 1..Len(files["dns_and_http"]) :
                      \E i \in Lines : Sub(i) = files["dns_and_http"][k] )
    /\ [][ ReturnsNotLive => (files' = files /\ http_queries' = http_queries) ]_vars

\* C18 witness: a finished run in which one candidate answered 200, 301
\* or 302 and lost its line to a failed append, and another candidate got
\* another status or an error and was not recorded as live.
LiveLostAndNotLive ==
    /\ mainPc = "done"
    /\ \E i, j \in Lines :
           /\ live[i] /\ "dns_and_http" \in saveFailed[i]
           /\ Sub(i) \notin Range(files["dns_and_http"])
           /\ resolved[j] /\ ~live[j] /\ httpAttempts[j] = 1

\* s is a prefix of t
IsPrefix(s, t) == Len(s) <= Len(t) /\ SubSeq(t, 1, Len(s)) = s

\* the first batch has been handed to gather and none of its tasks has
\* taken a step
FirstAdmission ==
    /\ \E i \in Tasks : pc[i] = "new"
    /\ \A i \in Tasks : pc[i] \in {"idle", "new"} /\ runs[i] <= 1

\* C19: when the first candidate is admitted both output files are empty,
\* whatever an earlier run left in them, and from then on every step leaves
\* the earlier content of each file as a prefix of its later content.
TruncatedThenAppendOnly ==
    /\ [] (FirstAdmission => \A f \in FileNames : files[f] = <<>> /\ fileExists[f])
    /\ [][ mainPc # "init" => \A f \in FileNames : IsPrefix(files[f], files'[f]) ]_vars

\* C19 witness: after the truncation the DNS-only file has been appended
\* to twice, with two different names.
TwoAppendsAfterTruncation ==
    /\ Len(files["dns_only"]) = 2
    /\ files["dns_only"][1] # files["dns_only"][2]
    /\ mainPc \notin {"init", "crashed"}

\* C20: with max_concurrent_tasks of 0 or below the run neither stalls
\* nor drops a line: every gather is of a batch of exactly one line and no
\* partial batch is left for the end, so at most one task is in flight; a step
\* is possible until the process has exited; and at "Scan complete" every
\* line has been run once and counted once.
DegenerateBatchSize ==
    max_concurrent_tasks <= 0 =>
        /\ Len(batch) <= 1
        /\ mainPc \in {"spawn_loop", "gather_loop"} => Len(batch) = 1
        /\ mainPc \notin {"spawn_last", "gather_last"}
        /\ Cardinality(InFlight) <= 1
        /\ Exited \/ ENABLED Next
        /\ mainPc = "done" => \A i \in Lines : runs[i] = 1 /\ processed[i] = 1

\* C20 witness: with a negative max_concurrent_tasks a run of two lines
\* has reached "Scan complete" and exited, both lines counted.
NegativeBatchCompletes ==
    /\ max_concurrent_tasks < 0
    /\ Len(wordlist) = 2
    /\ mainPc = "done"
    /\ Exited
    /\ total_processed = 2

====
